---- MODULE Spec2Model ----
(***************************************************************************)
(* A model of kevin/main.cpp: the bit helpers, amin/amax, print, the debug *)
(* stringifier with its macros, and main.                                  *)
(*                                                                         *)
(* An integer of a w-bit type is the set of the positions of its 1 bits    *)
(* (two's complement, bit w-1 the sign), so that 64-bit values keep their  *)
(* width.  A stream (cout, cerr) is the sequence of characters written.    *)
(***************************************************************************)
EXTENDS Integers, Sequences, FiniteSets, TLC

VARIABLES
    bty,      \* bit helpers: the type of the variable a ("int" or "ll")
    ba,       \* bit helpers: the variable a
    bprev,    \* bit helpers: a before the last call
    bop,      \* bit helpers: the last call, [op, b]
    bn,       \* bit helpers: calls made
    tT,       \* amin/amax: the type T of x
    tU,       \* amin/amax: the type U of y
    ax,       \* amin/amax: the variable x
    axprev,   \* amin/amax: x before the last call
    aop,      \* amin/amax: the last call, [op, y]
    judge,    \* the program: built with ONLINE_JUDGE defined
    pc,       \* the program: where main is
    stdinSrc, \* the program: what stdin reads from
    stdoutDst,\* the program: what stdout writes to
    started,  \* the program: main has recorded the start time
    nsolve,   \* the program: calls of solve() so far
    ncalls,   \* the program: calls solve() has made
    nread,    \* the program: values extracted from cin
    cout,     \* the program: the characters written to standard output
    cerr,     \* the program: the characters written to the error stream
    call,     \* the program: the last call made by solve(), [op, arg, b]
    wrote     \* the program: what that call wrote, [out, err]

bitVars == <<bty, ba, bprev, bop, bn>>
aminVars == <<tT, tU, ax, axprev, aop>>
progVars == <<judge, pc, stdinSrc, stdoutDst, started, nsolve, ncalls, nread,
              cout, cerr, call, wrote>>
vars == <<bitVars, aminVars, progVars>>

-----------------------------------------------------------------------------
(* Bounds *)

MaxOps == 1
MaxLen == 2
MaxArgs == 2
MaxCalls == 1
MaxClock == 1

-----------------------------------------------------------------------------
(* Integer types *)

IntBits == 32
LLBits == 64

Types == {"int", "ll"}
Width(ty) == IF ty = "int" THEN IntBits ELSE LLBits
BitsOf(w) == 0 .. (w - 1)

\* The values the model starts a variable of type ty from: 0, -1, the
\* minimum (only the sign bit), the maximum (every bit but the sign bit),
\* 5 and -6.
Corner(ty) ==
    LET w == Width(ty) IN
    { {}, BitsOf(w), {w - 1}, BitsOf(w - 1), {0, 2}, BitsOf(w) \ {0, 2} }

\* Integral conversion of a value of type ty to a 64-bit type (long long or
\* unsigned long long): an int is sign-extended.
Widen(ty, a) ==
    IF ty = "int" /\ (IntBits - 1) \in a THEN a \cup (IntBits .. (LLBits - 1)) ELSE a

\* int(v), ll(v): conversion of a 64-bit value to ty keeps the low bits.
Cast(ty, v) == v \cap BitsOf(Width(ty))

\* 1ULL << b, defined for 0 <= b < 64
Shl1ULL(b) == {b}

\* ~v on unsigned long long
NotULL(v) == BitsOf(LLBits) \ v

-----------------------------------------------------------------------------
(* setBit / clearBit / toggleBit / checkBit, lines 96-103 *)

setBit(ty, a, b) == a \cup Cast(ty, Shl1ULL(b))

\* a faulty clearBit: the mask is not complemented
clearBitNoComplement(ty, a, b) == a \cap Cast(ty, Shl1ULL(b))
clearBit(ty, a, b) == a \cap Cast(ty, NotULL(Shl1ULL(b)))

\* a faulty toggleBit: |= in place of ^=
toggleBitAsSet(ty, a, b) == a \cup Cast(ty, Shl1ULL(b))
toggleBit(ty, a, b) ==
    LET m == Cast(ty, Shl1ULL(b)) IN (a \ m) \cup (m \ a)

checkBit(ty, a, b) == IF (Widen(ty, a) \cap Shl1ULL(b)) # {} THEN 1 ELSE 0

BitInit ==
    /\ bty \in Types
    /\ ba \in Corner(bty)
    /\ bprev = ba
    /\ bop = [op |-> "none", b |-> 0]
    /\ bn = 0

SetBit(b) ==
    /\ bn < MaxOps
    /\ ba' = setBit(bty, ba, b)
    /\ bprev' = ba
    /\ bop' = [op |-> "setBit", b |-> b]
    /\ bn' = bn + 1
    /\ UNCHANGED bty
    /\ UNCHANGED <<aminVars, progVars>>

ClearBit(b) ==
    /\ bn < MaxOps
    /\ ba' = clearBit(bty, ba, b)
    /\ bprev' = ba
    /\ bop' = [op |-> "clearBit", b |-> b]
    /\ bn' = bn + 1
    /\ UNCHANGED bty
    /\ UNCHANGED <<aminVars, progVars>>

ToggleBit(b) ==
    /\ bn < MaxOps
    /\ ba' = toggleBit(bty, ba, b)
    /\ bprev' = ba
    /\ bop' = [op |-> "toggleBit", b |-> b]
    /\ bn' = bn + 1
    /\ UNCHANGED bty
    /\ UNCHANGED <<aminVars, progVars>>

-----------------------------------------------------------------------------
(* amin / amax, lines 83-86 *)

Neg(u) == (LLBits - 1) \in u

Top(d) == CHOOSE i \in d : \A j \in d : j <= i

\* u < v on unsigned 64-bit values: the highest bit they differ in is v's.
ULess(u, v) ==
    LET d == (u \ v) \cup (v \ u) IN d # {} /\ Top(d) \in v

\* u < v on signed 64-bit values
SLess(u, v) == IF Neg(u) # Neg(v) THEN Neg(u) ELSE ULess(u, v)

\* y < x after the usual arithmetic conversions of a T and a U, both signed
Lt(U, y, T, x) == SLess(Widen(U, y), Widen(T, x))

\* x = y: y converted to T
Assign(T, U, y) == Cast(T, Widen(U, y))

\* a faulty amin: the comparison is reversed
aminKeepsLarger(T, U, x, y) == IF Lt(T, x, U, y) THEN Assign(T, U, y) ELSE x
amin(T, U, x, y) == IF Lt(U, y, T, x) THEN Assign(T, U, y) ELSE x

amax(T, U, x, y) == IF Lt(T, x, U, y) THEN Assign(T, U, y) ELSE x

\* The values y is drawn from: 0, 1, 5, -1, the minimum and the maximum of
\* the type, and for long long also the neighbours of the int range.
Samples(ty) ==
    LET w == Width(ty) IN
    { {}, {0}, {0, 2}, BitsOf(w), {w - 1}, BitsOf(w - 1) }
    \cup (IF ty = "ll"
          THEN { BitsOf(IntBits), {IntBits - 1}, BitsOf(IntBits - 1), {IntBits},
                 BitsOf(LLBits) \ {IntBits - 1},
                 IntBits .. (LLBits - 1),
                 (IntBits - 1) .. (LLBits - 1) }
          ELSE {})

AminInit ==
    /\ tT \in Types
    /\ tU \in Types
    /\ ax \in Samples(tT)
    /\ axprev = ax
    /\ aop = [op |-> "none", y |-> {}]

Amin(y) ==
    /\ ax' = amin(tT, tU, ax, y)
    /\ axprev' = ax
    /\ aop' = [op |-> "amin", y |-> y]
    /\ UNCHANGED <<tT, tU>>
    /\ UNCHANGED <<bitVars, progVars>>

Amax(y) ==
    /\ ax' = amax(tT, tU, ax, y)
    /\ axprev' = ax
    /\ aop' = [op |-> "amax", y |-> y]
    /\ UNCHANGED <<tT, tU>>
    /\ UNCHANGED <<bitVars, progVars>>

-----------------------------------------------------------------------------
(* Streams and operator<< *)

Digits == <<"0", "1", "2", "3", "4", "5", "6", "7", "8", "9">>

RECURSIVE DecNat(_)
DecNat(n) ==
    IF n < 10 THEN <<Digits[n + 1]>>
    ELSE DecNat(n \div 10) \o <<Digits[(n % 10) + 1]>>

\* stream << n for an integer n
Dec(n) == IF n < 0 THEN <<"-">> \o DecNat(0 - n) ELSE DecNat(n)

RECURSIVE Flat(_)
Flat(ss) == IF ss = <<>> THEN <<>> ELSE Head(ss) \o Flat(Tail(ss))

\* endl is "\n" and spc is " ", lines 105-106
endl == <<"\n">>
spc == <<" ">>

\* cerr << s in a function defined after line 154: with ONLINE_JUDGE the macro
\* makes it if(false)cerr << s, which writes nothing.
Cerr(j, s) == IF j THEN <<>> ELSE s

-----------------------------------------------------------------------------
(* print, lines 115-122 *)

\* cout << v[i] << " \n"[i==sz(v)-1] for i = k .. sz(v)-1 (k counts from 0)
RECURSIVE printLoop(_, _)
printLoop(v, k) ==
    IF k >= Len(v) THEN <<>>
    ELSE Dec(v[k + 1]) \o (IF k = Len(v) - 1 THEN <<"\n">> ELSE <<" ">>)
         \o printLoop(v, k + 1)

\* a faulty print: the loop starts at 1, as print1 does
printVecFromOne(v) == printLoop(v, 1)
printVec(v) == printLoop(v, 0)

\* print(T a) and print(T a, Args... args)
RECURSIVE printArgs(_)
printArgs(args) ==
    IF Len(args) = 1 THEN Dec(Head(args)) \o endl
    ELSE Dec(Head(args)) \o spc \o printArgs(Tail(args))

-----------------------------------------------------------------------------
(* The values the debug stringifier is given: <<kind, payload>>.            *)
(* The payload of a number is an integer, of a char or a string its         *)
(* characters, of a bool a Boolean, of a pair <<first, second>> and of a    *)
(* container the sequence of its elements.                                  *)

Val(k, v) == <<k, v>>
Kind(x) == x[1]
Payload(x) == x[2]

ByteBits == 8

\* sizeof, on the LP64 target the header <bits/stdc++.h> implies
SizeOf(k) ==
    CASE k \in {"int", "uint"} -> 4
      [] k \in {"long", "ll", "ulong", "ull"} -> 8
      [] k \in {"char", "bool"} -> 1

\* the character codes of the chars the model prints
Ord(c) == CASE c = "a" -> 97 [] c = "z" -> 122

\* the integer a scalar converts to
AsInt(x) ==
    CASE Kind(x) = "char" -> Ord(Payload(x))
      [] Kind(x) = "bool" -> (IF Payload(x) THEN 1 ELSE 0)
      [] OTHER -> Payload(x)

\* bit i of n converted to unsigned long long, for -2^30 <= n < 2^30
BitAt(n, i) == IF i >= 30 THEN (IF n < 0 THEN 1 ELSE 0) ELSE (n \div (2 ^ i)) % 2

\* bitset<N>(n) printed: N digits, the highest bit first
RECURSIVE BitString(_, _)
BitString(n, N) ==
    IF N = 0 THEN <<>> ELSE <<Digits[BitAt(n, N - 1) + 1]>> \o BitString(n, N - 1)

\* toBin, line 125
toBin(x) == <<"[">> \o BitString(AsInt(x), ByteBits * SizeOf(Kind(x))) \o <<"]">>

\* a faulty separator: "," in place of ", "
PairSepNoSpace == <<",">>
PairSep == <<",", " ">>

\* _cerr, lines 126-145.  It is defined before the macro of line 154, so it
\* writes to the error stream in either build.
RECURSIVE _cerr(_, _)
RECURSIVE cerrElems(_, _, _)
_cerr(x, b) ==
    CASE Kind(x) \in {"int", "long", "ll", "uint"} ->
            Dec(Payload(x)) \o (IF b THEN toBin(x) ELSE <<>>)
      [] Kind(x) \in {"ulong", "ull"} -> Dec(Payload(x))
      [] Kind(x) = "char" -> <<"'", Payload(x), "'">> \o (IF b THEN toBin(x) ELSE <<>>)
      [] Kind(x) \in {"cstr", "string"} -> <<"\"">> \o Payload(x) \o <<"\"">>
      [] Kind(x) = "bool" ->
            (IF Payload(x) THEN <<"t", "r", "u", "e">> ELSE <<"f", "a", "l", "s", "e">>)
            \o (IF b THEN toBin(x) ELSE <<>>)
      [] Kind(x) = "pair" ->
            <<"{">> \o _cerr(Payload(x)[1], b) \o PairSep \o _cerr(Payload(x)[2], b) \o <<"}">>
      [] Kind(x) = "cont" -> <<"{">> \o cerrElems(Payload(x), b, 0) \o <<"}">>

\* FORE(i,x) cerr << (f++ ? ", " : ""), _cerr(i,b);
cerrElems(es, b, f) ==
    IF es = <<>> THEN <<>>
    ELSE (IF f # 0 THEN <<",", " ">> ELSE <<>>) \o _cerr(Head(es), b)
         \o cerrElems(Tail(es), b, f + 1)

-----------------------------------------------------------------------------
(* debug / debugbin / err / errbin / printd, lines 146-164 *)

\* #args: the source text of the arguments, separated by ", "
RECURSIVE Stringify(_)
Stringify(texts) ==
    IF Len(texts) = 1 THEN Head(texts)
    ELSE Head(texts) \o <<",", " ">> \o Stringify(Tail(texts))

\* replace(_s.begin(),_s.end(),',',' ')
ReplaceCommas(s) == [i \in 1 .. Len(s) |-> IF s[i] = "," THEN " " ELSE s[i]]

\* istream_iterator<string> over the text: its whitespace-separated words.
\* cur is the word being read.
RECURSIVE Words(_, _)
Words(s, cur) ==
    IF s = <<>> THEN (IF cur = <<>> THEN <<>> ELSE <<cur>>)
    ELSE IF Head(s) = " "
         THEN (IF cur = <<>> THEN <<>> ELSE <<cur>>) \o Words(Tail(s), <<>>)
         ELSE Words(Tail(s), Append(cur, Head(s)))

\* err(it, a, args...) and err(it), with bin = FALSE; errbin with bin = TRUE
RECURSIVE errWith(_, _, _, _)
errWith(j, it, as, bin) ==
    IF as = <<>> THEN Cerr(j, endl)
    ELSE Cerr(j, Head(it) \o <<" ", "=", " ">>) \o _cerr(Head(as), bin)
         \o Cerr(j, endl) \o errWith(j, Tail(it), Tail(as), bin)

err(j, it, as) == errWith(j, it, as, FALSE)
errbin(j, it, as) == errWith(j, it, as, TRUE)

Texts(args) == [i \in 1 .. Len(args) |-> args[i].text]
Vals(args) == [i \in 1 .. Len(args) |-> args[i].val]

\* the iterator the macros build from the source text of the arguments
Labels(args) == Words(ReplaceCommas(Stringify(Texts(args))), <<>>)

\* debug(args...): empty with ONLINE_JUDGE
debug(j, args) == IF j THEN <<>> ELSE err(j, Labels(args), Vals(args))
debugbin(j, args) == IF j THEN <<>> ELSE errbin(j, Labels(args), Vals(args))

\* printd(a) for an integer a, and printd()
printd(j, a) == Cerr(j, Dec(a) \o endl)
printdEmpty(j) == Cerr(j, endl)

-----------------------------------------------------------------------------
(* What solve() may be given to call, and with what *)

SeqsOf(S, lo, hi) == UNION { [1 .. n -> S] : n \in lo .. hi }

PrintElems == {0 - 12, 7}

Scalars ==
    { Val("int", 5), Val("int", 0 - 3), Val("long", 0 - 3), Val("ll", 5),
      Val("uint", 5), Val("ulong", 5), Val("ull", 6), Val("char", "a"),
      Val("bool", TRUE), Val("bool", FALSE), Val("string", <<"h", "i">>),
      Val("cstr", <<"s">>) }

FlatPairs ==
    { Val("pair", <<f, s>>) :
        f \in {Val("int", 5), Val("char", "a"), Val("ull", 6)},
        s \in {Val("int", 0 - 3), Val("string", <<"h", "i">>), Val("bool", TRUE)} }

\* a pair may hold pairs, but no container: the overload for containers is
\* declared after the one for pairs and is not found from it
NestedPairs ==
    { Val("pair", <<Val("pair", <<Val("int", 5), Val("int", 0 - 3)>>),
                    Val("string", <<"h", "i">>)>>),
      Val("pair", <<Val("int", 5), Val("pair", <<Val("char", "a"), Val("ull", 6)>>)>>) }

Containers ==
    { Val("cont", es) : es \in SeqsOf({Val("int", 5), Val("int", 0 - 3)}, 0, MaxLen) }
    \cup { Val("cont", <<Val("ull", 6)>>),
           Val("cont", <<Val("string", <<"h", "i">>)>>),
           Val("cont", <<Val("pair", <<Val("int", 5), Val("char", "a")>>),
                         Val("pair", <<Val("int", 0 - 3), Val("char", "z")>>)>>),
           Val("cont", <<Val("cont", <<Val("int", 5)>>), Val("cont", <<>>)>>) }

Values == Scalars \cup FlatPairs \cup NestedPairs \cup Containers

\* argument expressions of debug: the source text and the value
Exprs ==
    { [text |-> <<"x">>, val |-> Val("int", 5)],
      [text |-> <<"a", " ", "+", " ", "b">>, val |-> Val("int", 0 - 3)],
      [text |-> <<"f", "(", "a", ",", " ", "b", ")">>, val |-> Val("ull", 6)] }

ArgLists == SeqsOf(Exprs, 1, MaxArgs)

-----------------------------------------------------------------------------
(* main and solve, lines 166-188 *)

\* a faulty timing line: the unit is missing
TimingLineNoUnit(n) == endl \o <<"T", "i", "m", "e", ":", " ">> \o Dec(n) \o endl
\* cerr << endl << "Time: " << duration.count() << "ms" << endl, line 186
TimingLine(n) ==
    endl \o <<"T", "i", "m", "e", ":", " ">> \o Dec(n) \o <<"m", "s">> \o endl

ProgInit ==
    /\ judge \in BOOLEAN
    /\ pc = IF judge THEN "sync" ELSE "freopen_in"
    /\ stdinSrc = "stdin"
    /\ stdoutDst = "stdout"
    /\ started = FALSE
    /\ nsolve = 0
    /\ ncalls = 0
    /\ nread = 0
    /\ cout = <<>>
    /\ cerr = <<>>
    /\ call = [op |-> "none", arg |-> <<>>, b |-> FALSE]
    /\ wrote = [out |-> <<>>, err |-> <<>>]

\* freopen("input.txt", "r", stdin), line 172
FreopenIn ==
    /\ pc = "freopen_in"
    /\ stdinSrc' = "input.txt"
    /\ pc' = "freopen_out"
    /\ UNCHANGED <<judge, stdoutDst, started, nsolve, ncalls, nread, cout, cerr, call, wrote>>
    /\ UNCHANGED <<bitVars, aminVars>>

\* freopen("output.txt", "w", stdout), line 173
FreopenOut ==
    /\ pc = "freopen_out"
    /\ stdoutDst' = "output.txt"
    /\ pc' = "start"
    /\ UNCHANGED <<judge, stdinSrc, started, nsolve, ncalls, nread, cout, cerr, call, wrote>>
    /\ UNCHANGED <<bitVars, aminVars>>

\* auto start = now(), line 174
StartClock ==
    /\ pc = "start"
    /\ started' = TRUE
    /\ pc' = "sync"
    /\ UNCHANGED <<judge, stdinSrc, stdoutDst, nsolve, ncalls, nread, cout, cerr, call, wrote>>
    /\ UNCHANGED <<bitVars, aminVars>>

\* sync_with_stdio(false); cin.tie(nullptr); then solve() is entered,
\* lines 176-181
EnterSolve ==
    /\ pc = "sync"
    /\ nsolve' = nsolve + 1
    /\ pc' = "solve"
    /\ UNCHANGED <<judge, stdinSrc, stdoutDst, started, ncalls, nread, cout, cerr, call, wrote>>
    /\ UNCHANGED <<bitVars, aminVars>>

\* solve() is running a body that has made fewer than MaxCalls calls
InSolve == pc = "solve" /\ ncalls < MaxCalls

\* The effect of a call made by solve(): what it writes to cout and to cerr
\* and how many values it extracts from cin.
Made(op, arg, b, out, errs, reads) ==
    /\ ncalls' = ncalls + 1
    /\ call' = [op |-> op, arg |-> arg, b |-> b]
    /\ wrote' = [out |-> out, err |-> errs]
    /\ cout' = cout \o out
    /\ cerr' = cerr \o errs
    /\ nread' = nread + reads
    /\ UNCHANGED <<judge, pc, stdinSrc, stdoutDst, started, nsolve>>
    /\ UNCHANGED <<bitVars, aminVars>>

CallPrintVec(v) ==
    /\ InSolve
    /\ Made("printVec", v, FALSE, printVec(v), <<>>, 0)

CallPrintArgs(as) ==
    /\ InSolve
    /\ Made("printArgs", as, FALSE, printArgs(as), <<>>, 0)

CallCerr(x, b) ==
    /\ InSolve
    /\ Made("_cerr", x, b, <<>>, _cerr(x, b), 0)

CallDebug(args) ==
    /\ InSolve
    /\ Made("debug", args, FALSE, <<>>, debug(judge, args), 0)

CallDebugBin(args) ==
    /\ InSolve
    /\ Made("debugbin", args, TRUE, <<>>, debugbin(judge, args), 0)

\* err and errbin called with the iterator the macros would build
CallErr(args) ==
    /\ InSolve
    /\ Made("err", args, FALSE, <<>>, err(judge, Labels(args), Vals(args)), 0)

CallErrBin(args) ==
    /\ InSolve
    /\ Made("errbin", args, TRUE, <<>>, errbin(judge, Labels(args), Vals(args)), 0)

CallPrintd(a) ==
    /\ InSolve
    /\ Made("printd", a, FALSE, <<>>, printd(judge, a), 0)

CallPrintdEmpty ==
    /\ InSolve
    /\ Made("printdEmpty", <<>>, FALSE, <<>>, printdEmpty(judge), 0)

\* read(args...) with k arguments, line 108
CallRead(k) ==
    /\ InSolve
    /\ Made("read", k, FALSE, <<>>, <<>>, k)

\* solve() returns, line 181
ReturnFromSolve ==
    /\ pc = "solve"
    /\ pc' = IF judge THEN "done" ELSE "timing"
    /\ UNCHANGED <<judge, stdinSrc, stdoutDst, started, nsolve, ncalls, nread, cout, cerr, call, wrote>>
    /\ UNCHANGED <<bitVars, aminVars>>

\* lines 184-186, compiled only without ONLINE_JUDGE: the elapsed time n, in
\* milliseconds, is the environment's
Timing ==
    /\ pc = "timing"
    /\ \E n \in 0 .. MaxClock : cerr' = cerr \o TimingLine(n)
    /\ pc' = "done"
    /\ UNCHANGED <<judge, stdinSrc, stdoutDst, started, nsolve, ncalls, nread, cout, call, wrote>>
    /\ UNCHANGED <<bitVars, aminVars>>

-----------------------------------------------------------------------------
(* Specifications *)

BitIdle ==
    /\ bty = "int" /\ ba = {} /\ bprev = {} /\ bn = 0
    /\ bop = [op |-> "none", b |-> 0]

AminIdle ==
    /\ tT = "int" /\ tU = "int" /\ ax = {} /\ axprev = {}
    /\ aop = [op |-> "none", y |-> {}]

ProgIdle ==
    /\ judge = FALSE /\ pc = "done" /\ stdinSrc = "stdin" /\ stdoutDst = "stdout"
    /\ started = FALSE /\ nsolve = 0 /\ ncalls = 0 /\ nread = 0
    /\ cout = <<>> /\ cerr = <<>>
    /\ call = [op |-> "none", arg |-> <<>>, b |-> FALSE]
    /\ wrote = [out |-> <<>>, err |-> <<>>]

BitSpecInit == BitInit /\ AminIdle /\ ProgIdle

BitNext ==
    \/ \E b \in BitsOf(LLBits) : SetBit(b)
    \/ \E b \in BitsOf(LLBits) : ClearBit(b)
    \/ \E b \in BitsOf(LLBits) : ToggleBit(b)

BitSpec == BitSpecInit /\ [][BitNext]_vars

AminSpecInit == AminInit /\ BitIdle /\ ProgIdle

AminNext ==
    \/ \E y \in Samples(tU) : Amin(y)
    \/ \E y \in Samples(tU) : Amax(y)

AminSpec == AminSpecInit /\ [][AminNext]_vars

ProgSpecInit == ProgInit /\ BitIdle /\ AminIdle

ProgNext ==
    \/ FreopenIn
    \/ FreopenOut
    \/ StartClock
    \/ EnterSolve
    \/ \E v \in SeqsOf(PrintElems, 0, MaxLen) : CallPrintVec(v)
    \/ \E as \in SeqsOf(PrintElems, 1, MaxLen) : CallPrintArgs(as)
    \/ \E x \in Values, b \in BOOLEAN : CallCerr(x, b)
    \/ \E args \in ArgLists : CallDebug(args)
    \/ \E args \in ArgLists : CallDebugBin(args)
    \/ \E args \in ArgLists : CallErr(args)
    \/ \E args \in ArgLists : CallErrBin(args)
    \/ \E a \in PrintElems : CallPrintd(a)
    \/ CallPrintdEmpty
    \/ \E k \in 1 .. MaxArgs : CallRead(k)
    \/ ReturnFromSolve
    \/ Timing

ProgSpec == ProgSpecInit /\ [][ProgNext]_vars

-----------------------------------------------------------------------------
(* Claims about the bit helpers, under BitSpec *)

Mutating == {"setBit", "clearBit", "toggleBit"}

\* C1: for both overloads and every position 0 <= b < 64, after
\* clearBit(x, b), checkBit(x, b) returns 0.
C1_ClearThenCheck ==
    bop.op = "clearBit" => checkBit(bty, ba, bop.b) = 0

\* C2: for both overloads and every position 0 <= b < 64, toggleBit(x, b)
\* applied to the result of toggleBit(x, b) gives back the original x.
C2_ToggleTwice ==
    bop.op = "toggleBit" => toggleBit(bty, ba, bop.b) = bprev

C2_Witness ==
    bop.op = "toggleBit" /\ bty = "int" /\ bop.b = IntBits - 1 /\ ba # bprev

\* C9: for each overload of width w and every position 0 <= b < w, setBit,
\* clearBit and toggleBit leave every bit of a other than b unchanged, and
\* afterwards checkBit(a, b) is 1 after setBit, 0 after clearBit and the
\* negation of its former value after toggleBit.
C9_FrameAndCheck ==
    (bop.op \in Mutating /\ bop.b < Width(bty)) =>
        /\ ba \subseteq BitsOf(Width(bty))
        /\ \A i \in BitsOf(Width(bty)) \ {bop.b} : (i \in ba) <=> (i \in bprev)
        /\ checkBit(bty, ba, bop.b) =
              CASE bop.op = "setBit" -> 1
                [] bop.op = "clearBit" -> 0
                [] bop.op = "toggleBit" -> 1 - checkBit(bty, bprev, bop.b)

C9_Witness ==
    /\ bop.op = "clearBit" /\ bty = "int" /\ bop.b = IntBits - 1
    /\ ba # bprev /\ ba # {}

-----------------------------------------------------------------------------
(* Claims about amin / amax, under AminSpec *)

\* v, a signed 64-bit value, is a value of type T
Representable(T, v) == Widen(T, Cast(T, v)) = v

IsMinOf(m, u, v) == m \in {u, v} /\ ~SLess(u, m) /\ ~SLess(v, m)
IsMaxOf(m, u, v) == m \in {u, v} /\ ~SLess(m, u) /\ ~SLess(m, v)

\* C10 as stated: for all signed x of type T and y of type U, also when U
\* is wider than T, x is the mathematical minimum of the old x and y after
\* amin(x, y), and the mathematical maximum after amax(x, y).
C10_Original ==
    LET X == Widen(tT, axprev)
        Y == Widen(tU, aop.y)
        R == Widen(tT, ax)
    IN  /\ aop.op = "amin" => IsMinOf(R, X, Y)
        /\ aop.op = "amax" => IsMaxOf(R, X, Y)

\* C10 as amended: the same when the value of y is a value of type T; when
\* it is not, a y that does not improve x leaves x unchanged and a y that
\* improves x is stored converted to T (wrapped modulo 2^32).
C10_Amended ==
    LET X == Widen(tT, axprev)
        Y == Widen(tU, aop.y)
        R == Widen(tT, ax)
        better == IF aop.op = "amin" THEN SLess(Y, X) ELSE SLess(X, Y)
    IN  aop.op \in {"amin", "amax"} =>
          IF Representable(tT, Y)
          THEN /\ aop.op = "amin" => IsMinOf(R, X, Y)
               /\ aop.op = "amax" => IsMaxOf(R, X, Y)
               /\ ~better => ax = axprev
          ELSE IF better THEN ax = Cast(tT, Y) ELSE ax = axprev

C10_Witness ==
    /\ aop.op = "amin" /\ tT = "int" /\ tU = "ll"
    /\ Representable(tT, Widen(tU, aop.y))
    /\ ax # axprev

-----------------------------------------------------------------------------
(* Claims about print, the debug facility and main, under ProgSpec *)

\* what the last call of solve() wrote
LastOut == wrote.out
LastErr == wrote.err

Count(s, c) == Cardinality({i \in 1 .. Len(s) : s[i] = c})

TimingAt(s) ==
    {i \in 1 .. Len(s) - 5 : SubSeq(s, i, i + 5) = <<"T", "i", "m", "e", ":", " ">>}

\* C3: for every non-empty sequence, print (the vector overload and the
\* variadic one) writes to standard output the elements in order, one space
\* between neighbours, one newline after the last, and nothing else.
C3_PrintFormat ==
    (call.op \in {"printVec", "printArgs"} /\ call.arg # <<>>) =>
        /\ LastOut = Flat([i \in 1 .. Len(call.arg) |->
                             (IF i = 1 THEN <<>> ELSE <<" ">>) \o Dec(call.arg[i])])
                     \o <<"\n">>
        /\ LastErr = <<>>

C3_Witness ==
    /\ call.op = "printVec" /\ Len(call.arg) = 2
    /\ LastOut = <<"-", "1", "2", " ", "7", "\n">>

\* C4: for every pair (a, b) the stringifier writes to the error stream
\* exactly "{", the rendering of a, ", ", the rendering of b, "}".
C4_PairRendering ==
    (call.op = "_cerr" /\ Kind(call.arg) = "pair") =>
        LastErr = <<"{">> \o _cerr(Payload(call.arg)[1], call.b) \o <<",", " ">>
                  \o _cerr(Payload(call.arg)[2], call.b) \o <<"}">>

C4_Witness ==
    /\ call.op = "_cerr" /\ Kind(call.arg) = "pair" /\ ~call.b
    /\ LastErr = <<"{", "5", ",", " ", "{", "'", "a", "'", ",", " ", "6", "}", "}">>

\* C5: in a judge-mode build standard input and output are never redirected,
\* no timing line is written and no call of the debug facility writes
\* anything to the error stream; in a non-judge build all three happen.
C5_JudgeSilent ==
    /\ judge =>
        /\ stdinSrc = "stdin" /\ stdoutDst = "stdout"
        /\ cerr = <<>>
    /\ (~judge /\ pc = "done") =>
        /\ stdinSrc = "input.txt" /\ stdoutDst = "output.txt"
        /\ TimingAt(cerr) # {}
        /\ call.op \in {"_cerr", "debug", "debugbin", "err", "errbin",
                        "printd", "printdEmpty"} => LastErr # <<>>

\* C6: in a non-judge build main redirects standard input, then standard
\* output, then records the start time, then calls solve() once, and only
\* after solve() has returned writes one timing line, "Time: <n>ms", and
\* stops; it cannot stop before that.  With the empty solve() the error
\* stream then holds an empty line and the timing line, nothing was read and
\* nothing was written to standard output.
C6_MainOrder ==
    ~judge =>
        /\ nsolve <= 1
        /\ nsolve = 1 => started
        /\ started => stdoutDst = "output.txt"
        /\ stdoutDst = "output.txt" => stdinSrc = "input.txt"
        /\ pc # "done" => (TimingAt(cerr) = {} /\ ENABLED ProgNext)
        /\ pc = "done" =>
             /\ nsolve = 1
             /\ Cardinality(TimingAt(cerr)) = 1
             /\ \E n \in 0 .. MaxClock :
                  LET line == <<"\n", "T", "i", "m", "e", ":", " ">> \o Dec(n)
                              \o <<"m", "s", "\n">>
                  IN  /\ Len(cerr) >= Len(line)
                      /\ SubSeq(cerr, Len(cerr) - Len(line) + 1, Len(cerr)) = line
                      /\ ncalls = 0 => cerr = line
             /\ ncalls = 0 => (cout = <<>> /\ nread = 0)

C6_Witness ==
    /\ ~judge /\ pc = "done" /\ ncalls = 0 /\ nsolve = 1
    /\ cerr = <<"\n", "T", "i", "m", "e", ":", " ", "1", "m", "s", "\n">>

Integral == {"int", "long", "ll", "uint", "ulong", "ull", "char", "bool"}

\* the integral scalars printed when x is rendered
RECURSIVE NumIntegral(_)
RECURSIVE NumIntegralIn(_)
NumIntegral(x) ==
    CASE Kind(x) \in Integral -> 1
      [] Kind(x) \in {"pair", "cont"} -> NumIntegralIn(Payload(x))
      [] OTHER -> 0
NumIntegralIn(xs) ==
    IF xs = <<>> THEN 0 ELSE NumIntegral(Head(xs)) + NumIntegralIn(Tail(xs))

\* C7: with the binary option on, every integral scalar printed (also inside
\* pairs and containers) is followed by "[", 8*sizeof digits, "]"; with the
\* option off no binary representation is written.
C7_BinaryOption ==
    /\ call.op = "_cerr" =>
        /\ Count(LastErr, "[") = IF call.b THEN NumIntegral(call.arg) ELSE 0
        /\ (call.b /\ Kind(call.arg) \in Integral) =>
             LastErr = _cerr(call.arg, FALSE) \o <<"[">>
                       \o BitString(AsInt(call.arg), 8 * SizeOf(Kind(call.arg)))
                       \o <<"]">>
    /\ (~judge /\ call.op = "debugbin") =>
        Count(LastErr, "[") = NumIntegralIn(Vals(call.arg))
    /\ (~judge /\ call.op = "debug") => Count(LastErr, "[") = 0

\* C8: in a non-judge build debug(e1, ..., ek) writes the k lines
\* "<source text of e_i> = <rendering of e_i>" in order, then an empty line,
\* whatever the source text of the arguments.
C8_DebugLabels ==
    (~judge /\ call.op = "debug") =>
        LastErr = Flat([i \in 1 .. Len(call.arg) |->
                          call.arg[i].text \o <<" ", "=", " ">>
                          \o _cerr(call.arg[i].val, FALSE) \o <<"\n">>])
                  \o <<"\n">>

====
